---- MODULE Spec2Model ----
(***************************************************************************)
(* The ticket store and tool dispatcher of ticket-whisperer                *)
(* (src/src/whisperer/mcp_servers/server.py, models.py).                   *)
(*                                                                         *)
(* The store is the process-wide dict ticket_store.tickets: a map from key *)
(* to Ticket that keeps insertion order.  Time is a non-decreasing         *)
(* discrete clock; every datetime.now() is one reading of it.  One step of *)
(* the model is one handle_call_tool invocation, run to completion.        *)
(***************************************************************************)
EXTENDS Integers, Sequences, FiniteSets, TLC

\* ------------------------------------------------------------------ bounds
MaxClock == 2          \* the clock readings are 0..MaxClock
MaxCalls == 2          \* tool calls handled in one behaviour

\* ------------------------------------------------------------ entity model
\* Python's None (assignee, a missing ticket, exc of a normal return).
None == "None"

\* models.py TicketStatus / TicketPriority: the values of the enumerations.
TicketStatus == {"open", "in_progress", "resolved", "closed"}
TicketPriority == {"low", "medium", "high", "critical"}

\* A status or priority held by a ticket is either a member of the
\* enumeration (it has .value) or a plain str put there by setattr.  Both
\* compare and hash by the string (str mixin), so ==, dict keys and JSON see
\* only `value`; `.value` exists on members alone.
Member(v) == [enum |-> TRUE, value |-> v]
PlainStr(v) == [enum |-> FALSE, value |-> v]

\* The field names of models.py Ticket.
TicketFields ==
    {"id", "title", "description", "status", "priority", "assignee",
     "reporter", "created_at", "updated_at", "tags", "estimated_hours"}

\* Names that hasattr() finds on a Ticket without their being fields: the
\* methods and class attributes of the pydantic model.
ModelAttrs == {"model_dump", "model_fields"}

\* Optional[float]: <<>> is None, <<h>> is the number h.
NoHours == <<>>

\* Optional[Ticket]: <<>> is None, <<t>> is the ticket t.
NoTicket == <<>>

\* Truthiness of an Optional[str]: None and "" are false.
Truthy(s) == s # None /\ s # ""

Has(d, k) == k \in DOMAIN d

Get(d, k, default) == IF Has(d, k) THEN d[k] ELSE default

\* Ticket(**data): pydantic validation of a dict.  title, description,
\* reporter and id are required; status and priority must name a member of
\* their enumeration and become that member; created_at and updated_at
\* default to two successive readings c, u of the clock (default_factory);
\* keys that are not fields are ignored.  ok = FALSE is ValidationError.
Ticket(data, c, u) ==
    LET okStatus == Has(data, "status") => data.status \in TicketStatus
        okPriority == Has(data, "priority") => data.priority \in TicketPriority
        okRequired == /\ Has(data, "id")
                      /\ Has(data, "title")
                      /\ Has(data, "description")
                      /\ Has(data, "reporter")
    IN  IF ~(okRequired /\ okStatus /\ okPriority)
        THEN [ok |-> FALSE]
        ELSE [ok |-> TRUE,
              ticket |->
                [id |-> data.id,
                 title |-> data.title,
                 description |-> data.description,
                 status |-> Member(Get(data, "status", "open")),
                 priority |-> Member(Get(data, "priority", "medium")),
                 assignee |-> Get(data, "assignee", None),
                 reporter |-> data.reporter,
                 created_at |-> Get(data, "created_at", c),
                 updated_at |-> Get(data, "updated_at", u),
                 tags |-> Get(data, "tags", <<>>),
                 estimated_hours |-> IF Has(data, "estimated_hours")
                                     THEN <<data.estimated_hours>> ELSE NoHours]]

\* setattr(ticket, key, value) on a field: pydantic does not validate an
\* assignment (validate_assignment is off), the value is stored as given.
\* A status or priority given as a string stays a plain str; a timestamp is
\* the time the given value denotes.
SetAttr(ticket, key, value) ==
    IF key \in {"status", "priority"}
    THEN [ticket EXCEPT ![key] = PlainStr(value)]
    ELSE IF key = "estimated_hours"
    THEN [ticket EXCEPT ![key] = <<value>>]
    ELSE [ticket EXCEPT ![key] = value]

\* hasattr(ticket, key)
HasAttr(key) == key \in TicketFields \cup ModelAttrs

\* The loop of update_ticket over updates.items(), a sequence of <<key,
\* value>> in the dict's order.  A key that is no attribute is skipped.  A key
\* that is an attribute but no field makes setattr raise ValueError: the loop
\* stops there, the assignments before it stay on the ticket.
RECURSIVE ApplyUpdates(_, _)
ApplyUpdates(ticket, updates) ==
    IF updates = <<>> THEN [exc |-> None, ticket |-> ticket]
    ELSE LET key == Head(updates)[1]
             value == Head(updates)[2]
         IN  IF ~HasAttr(key) THEN ApplyUpdates(ticket, Tail(updates))
             ELSE IF key \notin TicketFields
                  THEN [exc |-> "ValueError", ticket |-> ticket]
                  ELSE ApplyUpdates(SetAttr(ticket, key, value), Tail(updates))

\* ------------------------------------------------------------ ticket store
\* self.tickets[key] = ticket on a dict: a new key goes to the end of the
\* insertion order, an existing key keeps its place and loses its old value.
PutTicket(store, key, ticket) ==
    [tickets |-> [k \in DOMAIN store.tickets \cup {key} |->
                    IF k = key THEN ticket ELSE store.tickets[k]],
     order |-> IF key \in DOMAIN store.tickets THEN store.order
               ELSE Append(store.order, key)]

\* TicketStore.create_ticket.  gen is the id uuid4 yields, c and u the clock
\* readings of the two default factories.
create_ticket(store, ticket_data, gen, c, u) ==
    LET data == IF Has(ticket_data, "id") THEN ticket_data
                ELSE ticket_data @@ [id |-> gen]
        made == Ticket(data, c, u)
    IN  IF ~made.ok
        THEN [exc |-> "ValidationError", store |-> store, ret |-> NoTicket]
        ELSE [exc |-> None,
              store |-> PutTicket(store, made.ticket.id, made.ticket),
              ret |-> <<made.ticket>>]

\* TicketStore.get_ticket: dict.get, None for a missing key.
get_ticket(store, ticket_id) ==
    IF ticket_id \in DOMAIN store.tickets THEN <<store.tickets[ticket_id]>>
    ELSE NoTicket

\* update_ticket gone wrong: a missing key is not turned away, the updates
\* are merged into a new entry under it.
update_ticket_Upsert(store, ticket_id, updates, t) ==
    LET old == IF ticket_id \in DOMAIN store.tickets THEN store.tickets[ticket_id]
               ELSE [id |-> ticket_id, title |-> "", description |-> "",
                     status |-> Member("open"), priority |-> Member("medium"),
                     assignee |-> None, reporter |-> "", created_at |-> t,
                     updated_at |-> t, tags |-> <<>>, estimated_hours |-> NoHours]
        done == ApplyUpdates(old, updates)
        stamped == [done.ticket EXCEPT !.updated_at = t]
    IN  IF done.exc # None
        THEN [exc |-> done.exc,
              store |-> PutTicket(store, ticket_id, done.ticket),
              ret |-> NoTicket]
        ELSE [exc |-> None,
              store |-> PutTicket(store, ticket_id, stamped),
              ret |-> <<stamped>>]

\* update_ticket gone wrong: updated_at is stamped before the loop, so an
\* updated_at among the updates survives.
update_ticket_StampFirst(store, ticket_id, updates, t) ==
    IF ticket_id \notin DOMAIN store.tickets
    THEN [exc |-> None, store |-> store, ret |-> NoTicket]
    ELSE LET stamped == [store.tickets[ticket_id] EXCEPT !.updated_at = t]
             done == ApplyUpdates(stamped, updates)
         IN  IF done.exc # None
             THEN [exc |-> done.exc,
                   store |-> [store EXCEPT !.tickets[ticket_id] = done.ticket],
                   ret |-> NoTicket]
             ELSE [exc |-> None,
                   store |-> [store EXCEPT !.tickets[ticket_id] = done.ticket],
                   ret |-> <<done.ticket>>]

\* TicketStore.update_ticket.  t is the clock reading of datetime.now().
\* The ticket is changed in place, so what the loop did before an exception
\* is in the store.
update_ticket(store, ticket_id, updates, t) ==
    IF ticket_id \notin DOMAIN store.tickets
    THEN [exc |-> None, store |-> store, ret |-> NoTicket]
    ELSE LET done == ApplyUpdates(store.tickets[ticket_id], updates)
             stamped == [done.ticket EXCEPT !.updated_at = t]
         IN  IF done.exc # None
             THEN [exc |-> done.exc,
                   store |-> [store EXCEPT !.tickets[ticket_id] = done.ticket],
                   ret |-> NoTicket]
             ELSE [exc |-> None,
                   store |-> [store EXCEPT !.tickets[ticket_id] = stamped],
                   ret |-> <<stamped>>]

\* list(self.tickets.values()): the tickets in insertion order.
Values(store) == [i \in 1..Len(store.order) |-> store.tickets[store.order[i]]]

\* len([t for t in tickets if t.status == s]); == compares the strings.
RECURSIVE CountStatus(_, _)
CountStatus(ts, s) ==
    IF ts = <<>> THEN 0
    ELSE (IF Head(ts).status.value = s THEN 1 ELSE 0) + CountStatus(Tail(ts), s)

RECURSIVE CountPriority(_, _)
CountPriority(ts, p) ==
    IF ts = <<>> THEN 0
    ELSE (IF Head(ts).priority.value = p THEN 1 ELSE 0) + CountPriority(Tail(ts), p)

\* TicketStore.get_summary
get_summary(store) ==
    LET ts == Values(store)
    IN  [total_tickets |-> Len(ts),
         open_tickets |-> CountStatus(ts, "open"),
         in_progress_tickets |-> CountStatus(ts, "in_progress"),
         resolved_tickets |-> CountStatus(ts, "resolved"),
         closed_tickets |-> CountStatus(ts, "closed"),
         high_priority_tickets |-> CountPriority(ts, "high"),
         critical_priority_tickets |-> CountPriority(ts, "critical")]

\* TicketFilter(**arguments): status and priority must name a member of
\* their enumeration, fields not given are None (tags: None and [] behave
\* alike in list_tickets and are both <<>> here), other keys are ignored.
TicketFilter(arguments) ==
    IF \/ Has(arguments, "status") /\ arguments.status \notin TicketStatus
       \/ Has(arguments, "priority") /\ arguments.priority \notin TicketPriority
    THEN [ok |-> FALSE]
    ELSE [ok |-> TRUE,
          filter |-> [status |-> Get(arguments, "status", None),
                      priority |-> Get(arguments, "priority", None),
                      assignee |-> Get(arguments, "assignee", None),
                      reporter |-> Get(arguments, "reporter", None),
                      tags |-> Get(arguments, "tags", <<>>)]]

\* any(tag in ticket.tags for tag in filter_criteria.tags)
AnyTag(want, tags) ==
    \E i \in 1..Len(want) : \E j \in 1..Len(tags) : want[i] = tags[j]

\* The body of the loop of list_tickets: TRUE when the ticket is appended.
Matches(ticket, f) ==
    /\ ~(Truthy(f.status) /\ ticket.status.value # f.status)
    /\ ~(Truthy(f.priority) /\ ticket.priority.value # f.priority)
    /\ ~(Truthy(f.assignee) /\ ticket.assignee # f.assignee)
    /\ ~(Truthy(f.reporter) /\ ticket.reporter # f.reporter)
    /\ ~(f.tags # <<>> /\ ~AnyTag(f.tags, ticket.tags))

RECURSIVE Filtered(_, _)
Filtered(ts, f) ==
    IF ts = <<>> THEN <<>>
    ELSE (IF Matches(Head(ts), f) THEN <<Head(ts)>> ELSE <<>>)
         \o Filtered(Tail(ts), f)

\* TicketStore.list_tickets; filter_criteria is <<>> (None) or <<f>>.
list_tickets(store, filter_criteria) ==
    IF filter_criteria = <<>> THEN Values(store)
    ELSE Filtered(Values(store), filter_criteria[1])

\* ---------------------------------------------------------------- analysis
RECURSIVE CountAssignee(_, _)
CountAssignee(ts, a) ==
    IF ts = <<>> THEN 0
    ELSE (IF Head(ts).assignee = a THEN 1 ELSE 0) + CountAssignee(Tail(ts), a)

RECURSIVE CountUnassigned(_)
CountUnassigned(ts) ==
    IF ts = <<>> THEN 0
    ELSE (IF ~Truthy(Head(ts).assignee) THEN 1 ELSE 0) + CountUnassigned(Tail(ts))

RECURSIVE CountHighOpen(_)
CountHighOpen(ts) ==
    IF ts = <<>> THEN 0
    ELSE (IF /\ Head(ts).priority.value \in {"high", "critical"}
             /\ Head(ts).status.value = "open"
          THEN 1 ELSE 0) + CountHighOpen(Tail(ts))

\* The workload gone wrong: the loop lacks its test, tickets without an
\* assignee get an entry of their own.
Workload_KeepsNone(ts) ==
    LET assigned == {ts[i].assignee : i \in 1..Len(ts)}
    IN  [analysis_type |-> "workload",
         workload_by_assignee |-> [a \in assigned |-> CountAssignee(ts, a)],
         unassigned_tickets |-> CountUnassigned(ts)]

\* analysis_type == "workload"
Workload(ts) ==
    LET assigned == {ts[i].assignee : i \in {j \in 1..Len(ts) : Truthy(ts[j].assignee)}}
    IN  [analysis_type |-> "workload",
         workload_by_assignee |-> [a \in assigned |-> CountAssignee(ts, a)],
         unassigned_tickets |-> CountUnassigned(ts)]

\* analysis_type == "priority"
PriorityAnalysis(ts) ==
    LET seen == {ts[i].priority.value : i \in 1..Len(ts)}
    IN  [analysis_type |-> "priority",
         priority_distribution |-> [p \in seen |-> CountPriority(ts, p)],
         high_priority_open |-> CountHighOpen(ts)]

\* round(x / n * 100, 2) in hundredths (50.0 is 5000), for 0 <= x <= n, n > 0;
\* no x / n * 100 with n below 32 lies halfway between two hundredths.
Round2(x, n) == (2 * x * 10000 + n) \div (2 * n)

\* The trends gone wrong: closed tickets are left out of the completed ones.
Trends_ResolvedOnly(ts) ==
    LET seen == {ts[i].status.value : i \in 1..Len(ts)}
        done == CountStatus(ts, "resolved")
    IN  [analysis_type |-> "trends",
         status_distribution |-> [v \in seen |-> CountStatus(ts, v)],
         completion_rate |-> IF ts # <<>> THEN Round2(done, Len(ts)) ELSE 0]

\* analysis_type == "trends"
Trends(ts) ==
    LET seen == {ts[i].status.value : i \in 1..Len(ts)}
        done == CountStatus(ts, "resolved") + CountStatus(ts, "closed")
    IN  [analysis_type |-> "trends",
         status_distribution |-> [v \in seen |-> CountStatus(ts, v)],
         completion_rate |-> IF ts # <<>> THEN Round2(done, Len(ts)) ELSE 0]

\* -------------------------------------------------------------------- text
\* The texts of the model: the titles and descriptions of the sample data
\* and of the calls below.  What str.lower, `in`, len, slicing and re.findall
\* yield on them is tabulated from the strings themselves.
Title1 == "Fix login bug"
Desc1 == "Users cannot log in with special characters in password"
Title2 == "Add dark mode"
Desc2 == "Implement dark mode theme for better user experience"
Title3 == "Validator failure in CI/CD pipeline"
Desc3 == "The validator failed during the nightly build process. Error occurred in the data validation step. Full logs available at: https://jenkins.example.com/job/validator-pipeline/123/console. Stack trace shows null pointer exception in ValidationEngine.validate() method. This needs immediate attention as it's blocking the release pipeline."
Desc3Head == "The validator failed during the nightly build process. Error occurred in the data validation step. Full logs available at: https://jenkins.example.com/job/validator-pipeline/123/console. Stack trace s"

\* {term : term in text.lower()} over the terms the handlers look for.
TermsIn(text) ==
    CASE text = Desc3 ->
           {"validator", "validation", "failed", "error", "exception", "log",
            "logs", "jenkins", "build", "null pointer", "stack trace"}
      [] text = Desc3Head ->
           {"validator", "validation", "failed", "error", "log", "logs",
            "jenkins", "build", "stack trace"}
      [] text = Title3 -> {"validator", "ci/cd"}
      [] text \in {Title1, Desc1} -> {"log"}
      [] OTHER -> {}

\* len(text)
TextLen(text) ==
    CASE text = Desc3 -> 336
      [] text = Desc3Head -> 200
      [] text = Desc1 -> 55
      [] text = Desc2 -> 52
      [] text = Title3 -> 35
      [] text \in {Title1, Title2} -> 13
      [] text = "T2" -> 2
      [] OTHER -> 1

\* text[:n] for the one cut the handlers make on a text longer than n.
Slice(text, n) == IF text = Desc3 /\ n = 200 THEN Desc3Head ELSE text

\* re.findall(url_pattern, text)
FindUrls(text) ==
    IF text \in {Desc3, Desc3Head}
    THEN <<"https://jenkins.example.com/job/validator-pipeline/123/console.">>
    ELSE <<>>

\* [w for w in words if w in text.lower()], in the order of words
RECURSIVE Present(_, _)
Present(words, text) ==
    IF words = <<>> THEN <<>>
    ELSE (IF Head(words) \in TermsIn(text) THEN <<Head(words)>> ELSE <<>>)
         \o Present(Tail(words), text)

PreviewLen == 200

\* The preview gone wrong: a description of exactly 200 characters gets the
\* marker too.
Preview_From200(description) ==
    IF TextLen(description) >= PreviewLen
    THEN [text |-> Slice(description, PreviewLen), marker |-> "..."]
    ELSE [text |-> description, marker |-> ""]

\* ticket.description[:200] + "..." if len(ticket.description) > 200 else
\* ticket.description, as the kept text and the marker appended to it
Preview(description) ==
    IF TextLen(description) > PreviewLen
    THEN [text |-> Slice(description, PreviewLen), marker |-> "..."]
    ELSE [text |-> description, marker |-> ""]

\* get_ticket_description: the result dict built for a found ticket.
Description(ticket, extract_links, analyze_failure) ==
    [ticket_id |-> ticket.id,
     title |-> ticket.title,
     description |-> ticket.description,
     status |-> ticket.status.value,
     priority |-> ticket.priority.value]
    @@ (IF extract_links
        THEN [extracted_urls |-> FindUrls(ticket.description)] ELSE <<>>)
    @@ (IF analyze_failure
        THEN [failure_analysis |->
                [has_validator_failure |->
                    TermsIn(ticket.description) \cap
                    {"validator", "validation", "failed", "error", "exception"} # {},
                 has_logs_link |->
                    TermsIn(ticket.description) \cap
                    {"log", "logs", "jenkins", "ci/cd", "build"} # {},
                 error_keywords |->
                    Present(<<"timeout", "connection", "assertion",
                              "null pointer", "stack trace">>,
                            ticket.description)]]
        ELSE <<>>)

\* search_validator_failures: the keyword test on one ticket.
IsFailure(ticket) ==
    (TermsIn(ticket.description) \cup TermsIn(ticket.title))
    \cap {"validator", "validation", "failed", "error"} # {}

\* search_validator_failures: the loop over all tickets.  ticket.status.value
\* is evaluated for a keyword match unless status_filter is "all"; a status
\* that is a plain str has no .value and raises AttributeError.
RECURSIVE SearchLoop(_, _)
SearchLoop(ts, status_filter) ==
    IF ts = <<>> THEN [exc |-> None, found |-> <<>>]
    ELSE LET ticket == Head(ts)
             rest == SearchLoop(Tail(ts), status_filter)
             entry == [ticket_id |-> ticket.id,
                       title |-> ticket.title,
                       status |-> ticket.status.value,
                       priority |-> ticket.priority.value,
                       created_at |-> ticket.created_at,
                       assignee |-> ticket.assignee,
                       description_preview |-> Preview(ticket.description)]
         IN  IF ~IsFailure(ticket) THEN rest
             ELSE IF status_filter # "all" /\ ~ticket.status.enum
                  THEN [exc |-> "AttributeError", found |-> <<>>]
             ELSE IF status_filter = "all" \/ ticket.status.value = status_filter
                  THEN IF rest.exc # None THEN rest
                       ELSE [exc |-> None, found |-> <<entry>> \o rest.found]
             ELSE rest

\* search_validator_failures: the query echoed as jql_query_used.
JqlUsed(jql_query, status_filter, days_back) ==
    IF jql_query # "" THEN <<jql_query>>
    ELSE <<"base_jql",
           IF status_filter = "all" THEN ""
           ELSE IF status_filter \in TicketStatus THEN status_filter ELSE "open",
           days_back>>

\* ------------------------------------------------------------------- state
VARIABLES
    ticket_store,   \* [tickets: key -> Ticket, order: the keys as inserted]
    now,            \* the latest reading of the clock
    calls,          \* tool calls handled so far
    call,           \* the call handled last: [name, arguments]
    result          \* what that call gave its caller: a text or an exception

vars == <<ticket_store, now, calls, call, result>>

tickets == ticket_store.tickets

\* A normal return of handle_call_tool: one TextContent, its text a header
\* followed by json.dumps of a body (either may be missing).
Text(header, body) ==
    [kind |-> "text", exc |-> None, header |-> header, body |-> body]

\* An exception that leaves handle_call_tool.
Raised(exc) == [kind |-> "raised", exc |-> exc, header |-> <<>>, body |-> <<>>]

\* _init_sample_data: the three sample tickets.
sample_tickets ==
    << [id |-> "TICKET-001", title |-> Title1, description |-> Desc1,
        status |-> "open", priority |-> "high",
        reporter |-> "alice@example.com",
        tags |-> <<"bug", "authentication">>],
       [id |-> "TICKET-002", title |-> Title2, description |-> Desc2,
        status |-> "in_progress", priority |-> "medium",
        assignee |-> "bob@example.com", reporter |-> "carol@example.com",
        tags |-> <<"feature", "ui">>],
       [id |-> "TICKET-003", title |-> Title3, description |-> Desc3,
        status |-> "open", priority |-> "critical",
        reporter |-> "ci-system@example.com",
        assignee |-> "dev-team@example.com",
        tags |-> <<"validator", "ci-cd", "critical", "pipeline">>] >>

\* The loop of _init_sample_data from sample i on; clock holds the reading
\* of the two default factories of each ticket.
RECURSIVE InitSamples(_, _, _)
InitSamples(store, i, clock) ==
    IF i > Len(sample_tickets) THEN store
    ELSE LET made == Ticket(sample_tickets[i], clock[2 * i - 1], clock[2 * i])
         IN  InitSamples(PutTicket(store, made.ticket.id, made.ticket), i + 1, clock)

EmptyStore == [tickets |-> <<>>, order |-> <<>>]

\* The readings of the clock while the store is built at import, two for
\* each sample ticket: the clock starts at 0 and its unit is longer than the
\* construction takes.
InitClocks == {[i \in 1..6 |-> 0]}

\* A reading of the clock after the reading t: time does not go back, and at
\* most one unit passes between two readings.
Readings(t) == {r \in {t, t + 1} : r <= MaxClock}

Init ==
    /\ \E clock \in InitClocks :
         /\ ticket_store = InitSamples(EmptyStore, 1, clock)
         /\ now = clock[6]
    /\ calls = 0
    /\ call = [name |-> None, arguments |-> <<>>]
    /\ result = Text(<<>>, <<>>)

\* ------------------------------------------------------- inputs of the calls
\* uuid.uuid4().hex[:8].upper(): 32 random bits, any value at any call.
GenIds == {"TICKET-1A2B3C4D", "TICKET-9F8E7D6C"}

Minimal == [title |-> "T", description |-> "D", reporter |-> "R"]

\* arguments of create_ticket
CreateArguments ==
    << Minimal @@ [id |-> "TICKET-001", status |-> "closed"],
       Minimal,
       [description |-> "D", reporter |-> "R"],
       [title |-> "T", reporter |-> "R"],
       [title |-> "T", description |-> "D"],
       Minimal @@ [status |-> "done"],
       Minimal @@ [priority |-> "urgent"],
       Minimal @@ [id |-> "TICKET-9F8E7D6C", assignee |-> "bob@example.com",
                   priority |-> "high"],
       Minimal @@ [created_at |-> MaxClock, updated_at |-> 0],
       Minimal @@ [created_at |-> MaxClock],
       Minimal @@ [updated_at |-> MaxClock],
       Minimal @@ [estimated_hours |-> -1],
       Minimal @@ [status |-> "resolved", tags |-> <<"bug">>, colour |-> "red"] >>

\* the updates object of update_ticket, as the items of the dict in order
UpdateObjects ==
    << <<>>,
       << <<"status", "resolved">> >>,
       << <<"status", "done">> >>,
       << <<"priority", "critical">> >>,
       << <<"priority", "urgent">> >>,
       << <<"id", "TICKET-002">> >>,
       << <<"id", "TICKET-777">> >>,
       << <<"created_at", MaxClock>> >>,
       << <<"updated_at", 0>> >>,
       << <<"colour", "red">> >>,
       << <<"title", "T2">>, <<"model_dump", "x">> >>,
       << <<"description", Desc3Head>> >>,
       << <<"estimated_hours", -1>> >>,
       << <<"assignee", "bob@example.com">>, <<"status", "closed">> >> >>

\* ticket ids named in calls: the keys of the store and one that is none
TicketIds == DOMAIN tickets \cup {"NOPE-1"}

\* arguments of list_tickets
ListArguments ==
    << <<>>,
       [status |-> "open"],
       [status |-> "done"],
       [priority |-> "urgent"],
       [status |-> "open", assignee |-> "dev-team@example.com"],
       [tags |-> <<"bug", "ui">>],
       [assignee |-> ""],
       [tags |-> <<>>] >>

\* arguments of analyze_tickets
AnalyzeArguments ==
    << [analysis_type |-> "workload"],
       [analysis_type |-> "priority"],
       [analysis_type |-> "trends"],
       [analysis_type |-> "velocity"],
       <<>> >>

\* arguments of search_validator_failures
SearchArguments ==
    << <<>>,
       [status_filter |-> "all"],
       [status_filter |-> "resolved", days_back |-> 30],
       [jql_query |-> "project = X", status_filter |-> "open"],
       [jql_query |-> "project = X", days_back |-> 30] >>

UnknownTools == {"delete_ticket"}

\* ------------------------------------------------- handle_call_tool, by branch
\* What every branch does around its body: the call is counted and recorded
\* with the response it got.
Handled(name, arguments, response) ==
    /\ calls' = calls + 1
    /\ call' = [name |-> name, arguments |-> arguments]
    /\ result' = response

\* name == "create_ticket"
CallCreateTicket ==
    /\ calls < MaxCalls
    /\ \E i \in DOMAIN CreateArguments, gen \in GenIds, c \in Readings(now) :
       \E u \in Readings(c) :
         LET arguments == CreateArguments[i]
             out == create_ticket(ticket_store, arguments, gen, c, u)
             readsC == out.exc = None /\ ~Has(arguments, "created_at")
             readsU == out.exc = None /\ ~Has(arguments, "updated_at")
         IN  /\ readsC \/ c = now
             /\ readsU \/ u = c
             /\ ticket_store' = out.store
             /\ now' = IF readsU THEN u ELSE IF readsC THEN c ELSE now
             /\ Handled("create_ticket", arguments,
                  IF out.exc # None THEN Raised(out.exc)
                  ELSE Text(<<"Created ticket", out.ret[1].id, out.ret[1].title>>,
                            out.ret[1]))

\* get_ticket gone wrong: reading a ticket stamps it.
CallGetTicket_Touches ==
    /\ calls < MaxCalls
    /\ \E arguments \in {[ticket_id |-> k] : k \in TicketIds} \cup {<<>>} :
         LET ticket == get_ticket(ticket_store, arguments.ticket_id)
         IN  /\ Handled("get_ticket", arguments,
                  IF ~Has(arguments, "ticket_id") THEN Raised("KeyError")
                  ELSE IF ticket = NoTicket
                       THEN Text(<<"Ticket", arguments.ticket_id, "not found">>, <<>>)
                  ELSE Text(<<>>, ticket[1]))
             /\ ticket_store' =
                  IF Has(arguments, "ticket_id") /\ ticket # NoTicket
                  THEN [ticket_store EXCEPT
                          !.tickets[arguments.ticket_id].updated_at = MaxClock]
                  ELSE ticket_store
    /\ UNCHANGED now

\* name == "get_ticket"
CallGetTicket ==
    /\ calls < MaxCalls
    /\ \E arguments \in {[ticket_id |-> k] : k \in TicketIds} \cup {<<>>} :
         LET ticket == get_ticket(ticket_store, arguments.ticket_id)
         IN  Handled("get_ticket", arguments,
               IF ~Has(arguments, "ticket_id") THEN Raised("KeyError")
               ELSE IF ticket = NoTicket
                    THEN Text(<<"Ticket", arguments.ticket_id, "not found">>, <<>>)
               ELSE Text(<<>>, ticket[1]))
    /\ UNCHANGED <<ticket_store, now>>

\* name == "update_ticket"
CallUpdateTicket ==
    /\ calls < MaxCalls
    /\ \E k \in TicketIds, i \in DOMAIN UpdateObjects, t \in Readings(now),
          given \in {"both", "no ticket_id", "no updates"} :
         LET arguments ==
               CASE given = "both" -> [ticket_id |-> k, updates |-> UpdateObjects[i]]
                 [] given = "no ticket_id" -> [updates |-> UpdateObjects[i]]
                 [] given = "no updates" -> [ticket_id |-> k]
             out == update_ticket(ticket_store, k, UpdateObjects[i], t)
             stamps == given = "both" /\ out.ret # NoTicket
         IN  /\ stamps \/ t = now
             /\ given # "both" => i = 1
             /\ given = "no ticket_id" => k = "NOPE-1"
             /\ ticket_store' = IF given = "both" THEN out.store ELSE ticket_store
             /\ now' = IF stamps THEN t ELSE now
             /\ Handled("update_ticket", arguments,
                  IF given # "both" THEN Raised("KeyError")
                  ELSE IF out.exc # None THEN Raised(out.exc)
                  ELSE IF out.ret = NoTicket
                       THEN Text(<<"Ticket", k, "not found">>, <<>>)
                  ELSE Text(<<"Updated ticket", out.ret[1].id>>, out.ret[1]))

\* name == "list_tickets"
CallListTickets ==
    /\ calls < MaxCalls
    /\ \E i \in DOMAIN ListArguments :
         LET arguments == ListArguments[i]
             made == TicketFilter(arguments)
             found == list_tickets(ticket_store,
                        IF DOMAIN arguments = {} THEN <<>> ELSE <<made.filter>>)
         IN  Handled("list_tickets", arguments,
               IF DOMAIN arguments # {} /\ ~made.ok THEN Raised("ValidationError")
               ELSE Text(<<"Found", Len(found), "tickets:">>, found))
    /\ UNCHANGED <<ticket_store, now>>

\* name == "get_ticket_summary"
CallGetTicketSummary ==
    /\ calls < MaxCalls
    /\ Handled("get_ticket_summary", <<>>,
         Text(<<"Ticket Summary:">>, get_summary(ticket_store)))
    /\ UNCHANGED <<ticket_store, now>>

\* name == "analyze_tickets"
CallAnalyzeTickets ==
    /\ calls < MaxCalls
    /\ \E i \in DOMAIN AnalyzeArguments :
         LET arguments == AnalyzeArguments[i]
             ts == list_tickets(ticket_store, <<>>)
         IN  Handled("analyze_tickets", arguments,
               IF ~Has(arguments, "analysis_type") THEN Raised("KeyError")
               ELSE IF arguments.analysis_type = "workload"
                    THEN Text(<<"Ticket Analysis:">>, Workload(ts))
               ELSE IF arguments.analysis_type = "priority"
                    THEN Text(<<"Ticket Analysis:">>, PriorityAnalysis(ts))
               ELSE IF arguments.analysis_type = "trends"
                    THEN Text(<<"Ticket Analysis:">>, Trends(ts))
               ELSE Raised("UnboundLocalError"))
    /\ UNCHANGED <<ticket_store, now>>

\* name == "get_ticket_description"
CallGetTicketDescription ==
    /\ calls < MaxCalls
    /\ \E arguments \in
            {[ticket_id |-> k] : k \in TicketIds}
            \cup {[ticket_id |-> k, extract_links |-> FALSE, analyze_failure |-> TRUE] :
                    k \in TicketIds}
            \cup {[analyze_failure |-> TRUE]} :
         LET ticket == get_ticket(ticket_store, arguments.ticket_id)
         IN  Handled("get_ticket_description", arguments,
               IF ~Has(arguments, "ticket_id") THEN Raised("KeyError")
               ELSE IF ticket = NoTicket
                    THEN Text(<<"Ticket", arguments.ticket_id, "not found">>, <<>>)
               ELSE Text(<<"Ticket Description Analysis:">>,
                         Description(ticket[1],
                                     Get(arguments, "extract_links", TRUE),
                                     Get(arguments, "analyze_failure", FALSE))))
    /\ UNCHANGED <<ticket_store, now>>

\* The search gone wrong: a custom query is applied and matches nothing in
\* the store.
CallSearchValidatorFailures_AppliesQuery ==
    /\ calls < MaxCalls
    /\ \E i \in DOMAIN SearchArguments :
         LET arguments == SearchArguments[i]
             jql_query == Get(arguments, "jql_query", "")
             status_filter == Get(arguments, "status_filter", "open")
             days_back == Get(arguments, "days_back", 7)
             out == IF jql_query # "" THEN [exc |-> None, found |-> <<>>]
                    ELSE SearchLoop(list_tickets(ticket_store, <<>>), status_filter)
         IN  Handled("search_validator_failures", arguments,
               IF out.exc # None THEN Raised(out.exc)
               ELSE Text(<<"Validator Failure Search Results:">>,
                         [jql_query_used |-> JqlUsed(jql_query, status_filter, days_back),
                          total_found |-> Len(out.found),
                          tickets |-> out.found]))
    /\ UNCHANGED <<ticket_store, now>>

\* name == "search_validator_failures"
CallSearchValidatorFailures ==
    /\ calls < MaxCalls
    /\ \E i \in DOMAIN SearchArguments :
         LET arguments == SearchArguments[i]
             jql_query == Get(arguments, "jql_query", "")
             status_filter == Get(arguments, "status_filter", "open")
             days_back == Get(arguments, "days_back", 7)
             out == SearchLoop(list_tickets(ticket_store, <<>>), status_filter)
         IN  Handled("search_validator_failures", arguments,
               IF out.exc # None THEN Raised(out.exc)
               ELSE Text(<<"Validator Failure Search Results:">>,
                         [jql_query_used |-> JqlUsed(jql_query, status_filter, days_back),
                          total_found |-> Len(out.found),
                          tickets |-> out.found]))
    /\ UNCHANGED <<ticket_store, now>>

\* The else branch gone wrong: an unknown name raises.
CallUnknownTool_Raises ==
    /\ calls < MaxCalls
    /\ \E name \in UnknownTools : Handled(name, <<>>, Raised("ValueError"))
    /\ UNCHANGED <<ticket_store, now>>

\* any other name
CallUnknownTool ==
    /\ calls < MaxCalls
    /\ \E name \in UnknownTools :
         Handled(name, <<>>, Text(<<"Unknown tool:", name>>, <<>>))
    /\ UNCHANGED <<ticket_store, now>>

Next ==
    \/ CallCreateTicket
    \/ CallGetTicket
    \/ CallUpdateTicket
    \/ CallListTickets
    \/ CallGetTicketSummary
    \/ CallAnalyzeTickets
    \/ CallGetTicketDescription
    \/ CallSearchValidatorFailures
    \/ CallUnknownTool

Spec == Init /\ [][Next]_vars

\* ------------------------------------------------------------------ claims
\* C1: in every reachable state every stored ticket has a status in {open,
\* in_progress, resolved, closed} and a priority in {low, medium, high,
\* critical}.
C1_StatusAndPriorityEnumerated ==
    \A k \in DOMAIN tickets :
        /\ tickets[k].status.value \in TicketStatus
        /\ tickets[k].priority.value \in TicketPriority

\* C2: a create_ticket call whose arguments carry the id of a ticket already
\* in the store is rejected (it does not answer "Created ticket") and leaves
\* the ticket stored under that id as it was.
C2_CollidingCreateRejected ==
    [][(/\ call'.name = "create_ticket"
        /\ Has(call'.arguments, "id")
        /\ call'.arguments.id \in DOMAIN tickets)
       => /\ ~(result'.kind = "text" /\ result'.header # <<>>
               /\ result'.header[1] = "Created ticket")
          /\ tickets'[call'.arguments.id] = tickets[call'.arguments.id]]_vars

\* C3: in every reachable state no two distinct stored tickets have the same
\* value in their id field.
C3_IdsUnique ==
    \A j, k \in DOMAIN tickets : j # k => tickets[j].id # tickets[k].id

\* C4: an update_ticket call, whatever its updates object holds, leaves the
\* id field of every stored ticket as it was.
C4_IdImmutable ==
    [][call'.name = "update_ticket"
       => \A k \in DOMAIN tickets : tickets'[k].id = tickets[k].id]_vars

\* C5: once create_ticket has returned a ticket, no later operation on it
\* changes its created_at (a step that is no create_ticket leaves the
\* created_at of every stored ticket as it was).
C5_CreatedAtNeverModified ==
    [][call'.name # "create_ticket"
       => \A k \in DOMAIN tickets :
            tickets'[k].created_at = tickets[k].created_at]_vars

\* C6: in every reachable state, the clock being non-decreasing, every stored
\* ticket has updated_at >= created_at.
C6_UpdatedNotBeforeCreated ==
    \A k \in DOMAIN tickets : tickets[k].updated_at >= tickets[k].created_at

\* C7: a ticket once created is never removed: at every step every key of
\* the store stays a key, the ticket under it keeps its created_at, and it
\* changes only by an update_ticket call on that key.
C7_NeverRemoved ==
    [][\A k \in DOMAIN tickets :
         /\ k \in DOMAIN tickets'
         /\ tickets'[k].created_at = tickets[k].created_at
         /\ tickets'[k] # tickets[k]
            => /\ call'.name = "update_ticket"
               /\ Has(call'.arguments, "ticket_id")
               /\ call'.arguments.ticket_id = k]_vars

\* C8: in every reachable state the summary of get_summary has open_tickets +
\* in_progress_tickets + resolved_tickets + closed_tickets = total_tickets.
C8_SummaryAddsUp ==
    LET summary == get_summary(ticket_store)
    IN  summary.open_tickets + summary.in_progress_tickets
        + summary.resolved_tickets + summary.closed_tickets
        = summary.total_tickets

\* C9: whatever the tool name and the arguments, handle_call_tool returns a
\* text response: no exception leaves it.
C9_NoExceptionLeavesDispatcher == result.kind = "text"

\* create_ticket arguments that miss title, description or reporter, or
\* hold a status or priority outside the enumerations
InvalidCreate(arguments) ==
    \/ ~Has(arguments, "title")
    \/ ~Has(arguments, "description")
    \/ ~Has(arguments, "reporter")
    \/ Has(arguments, "status") /\ arguments.status \notin TicketStatus
    \/ Has(arguments, "priority") /\ arguments.priority \notin TicketPriority

\* C10: a create_ticket call with such arguments returns a text (it raises
\* nothing) and leaves the store as it was.
C10_InvalidCreateIsTextualError ==
    [][(call'.name = "create_ticket" /\ InvalidCreate(call'.arguments))
       => (result'.kind = "text" /\ ticket_store' = ticket_store)]_vars

\* The tools of the catalog of handle_list_tools.
CatalogTools ==
    {"create_ticket", "get_ticket", "update_ticket", "list_tickets",
     "get_ticket_summary", "analyze_tickets", "get_ticket_description",
     "search_validator_failures"}

\* The call c was an update_ticket that returned the updated ticket.
UpdateSucceeded(c, r) ==
    /\ c.name = "update_ticket"
    /\ r.kind = "text"
    /\ r.header # <<>>
    /\ r.header[1] = "Updated ticket"

\* C11: a get_ticket or an update_ticket (with any updates object) for an id
\* that is no key of the store answers "Ticket <id> not found" and leaves the
\* store (keys, order and every field of every ticket) as it was.
C11_NotFoundLeavesStore ==
    [][(/\ call'.name \in {"get_ticket", "update_ticket"}
        /\ Has(call'.arguments, "ticket_id")
        /\ call'.name = "update_ticket" => Has(call'.arguments, "updates")
        /\ call'.arguments.ticket_id \notin DOMAIN tickets)
       => /\ result'.kind = "text"
          /\ result'.header = <<"Ticket", call'.arguments.ticket_id, "not found">>
          /\ ticket_store' = ticket_store]_vars

\* C11 happens: an update_ticket with a non-empty updates object for an id
\* that is no key was answered.
C11_Witness ==
    /\ call.name = "update_ticket"
    /\ Has(call.arguments, "ticket_id") /\ Has(call.arguments, "updates")
    /\ call.arguments.ticket_id \notin DOMAIN tickets
    /\ call.arguments.updates # <<>>
    /\ result.header = <<"Ticket", call.arguments.ticket_id, "not found">>

\* C12: a call whose name is none of the eight catalog tools returns the text
\* "Unknown tool: <name>", raises nothing and leaves the store as it was.
C12_UnknownToolIsText ==
    [][(calls' = calls + 1 /\ call'.name \notin CatalogTools)
       => /\ result'.kind = "text"
          /\ result'.header = <<"Unknown tool:", call'.name>>
          /\ ticket_store' = ticket_store]_vars

\* C12 happens: a call with an unknown name was answered.
C12_Witness ==
    /\ calls > 0
    /\ call.name \notin CatalogTools
    /\ result.kind = "text"

\* C14: every update_ticket that returns the ticket has set its updated_at
\* to the clock's reading of that call, whatever the updates hold (nothing,
\* no change, or an updated_at of their own).
C14_UpdateStampsNow ==
    [][UpdateSucceeded(call', result')
       => tickets'[call'.arguments.ticket_id].updated_at = now']_vars

\* C14 happens: an update whose updates carry an updated_at was answered and
\* the ticket holds the clock's reading, not the value supplied.
C14_Witness ==
    /\ UpdateSucceeded(call, result)
    /\ call.arguments.updates # <<>>
    /\ call.arguments.updates[1][1] = "updated_at"
    /\ tickets[call.arguments.ticket_id].updated_at = now
    /\ call.arguments.updates[1][2] # now

\* The call c was an update_ticket, with both arguments, for a key of store.
UpdateOnExisting(c, store) ==
    /\ c.name = "update_ticket"
    /\ Has(c.arguments, "ticket_id") /\ Has(c.arguments, "updates")
    /\ c.arguments.ticket_id \in DOMAIN store.tickets

\* The keys of an updates object.
UpdateKeys(updates) == {updates[i][1] : i \in DOMAIN updates}

\* The value an updates object gives for key.
UpdateValue(updates, key) ==
    updates[CHOOSE i \in DOMAIN updates : updates[i][1] = key][2]

\* The field of a ticket holds the value v, an enum member or a str alike.
FieldIs(ticket, field, v) ==
    IF field \in {"status", "priority"} THEN ticket[field].value = v
    ELSE IF field = "estimated_hours" THEN ticket[field] = <<v>>
    ELSE ticket[field] = v

\* C13: an update_ticket on an existing ticket changes only the fields named
\* in the updates and updated_at: the keys of the store, every other ticket
\* and every other field of the ticket stay, each named field holds the value
\* supplied, and updated_at is not before what it was.
C13_UpdateChangesOnlyNamed ==
    [][(UpdateOnExisting(call', ticket_store) /\ result'.kind = "text")
       => LET k == call'.arguments.ticket_id
              updates == call'.arguments.updates
          IN  /\ ticket_store'.order = ticket_store.order
              /\ DOMAIN tickets' = DOMAIN tickets
              /\ \A o \in DOMAIN tickets \ {k} : tickets'[o] = tickets[o]
              /\ \A f \in TicketFields \ (UpdateKeys(updates) \cup {"updated_at"}) :
                    tickets'[k][f] = tickets[k][f]
              /\ \A f \in (TicketFields \cap UpdateKeys(updates)) \ {"updated_at"} :
                    FieldIs(tickets'[k], f, UpdateValue(updates, f))
              /\ tickets'[k].updated_at >= tickets[k].updated_at]_vars

\* C15: an update_ticket on an existing ticket whose updates hold a key that
\* is no ticket field returns the ticket, and changes nothing on it but the
\* ticket fields named and updated_at.
C15_UnknownKeysIgnored ==
    [][(/\ UpdateOnExisting(call', ticket_store)
        /\ UpdateKeys(call'.arguments.updates) \ TicketFields # {})
       => LET k == call'.arguments.ticket_id
              updates == call'.arguments.updates
          IN  /\ UpdateSucceeded(call', result')
              /\ DOMAIN tickets' = DOMAIN tickets
              /\ \A f \in TicketFields \ (UpdateKeys(updates) \cup {"updated_at"}) :
                    tickets'[k][f] = tickets[k][f]]_vars

\* The call c was a create_ticket that returned the created ticket.
CreateSucceeded(c, r) ==
    /\ c.name = "create_ticket"
    /\ r.kind = "text"
    /\ r.header # <<>>
    /\ r.header[1] = "Created ticket"

\* C16: after a create_ticket with only title, description and reporter,
\* get_ticket with the returned id yields a ticket with those three values,
\* status open, priority medium, no tags, and created_at equal to updated_at.
C16_RoundTripDefaults ==
    (/\ CreateSucceeded(call, result)
     /\ DOMAIN call.arguments = {"title", "description", "reporter"})
    => LET got == get_ticket(ticket_store, result.header[2])
       IN  /\ got # NoTicket
           /\ got[1].title = call.arguments.title
           /\ got[1].description = call.arguments.description
           /\ got[1].reporter = call.arguments.reporter
           /\ got[1].status = Member("open")
           /\ got[1].priority = Member("medium")
           /\ got[1].tags = <<>>
           /\ got[1].created_at = got[1].updated_at

\* C17: a create_ticket without an id gets an id that is no key of the store
\* yet (so any number of them get pairwise distinct ids), the store grows by
\* exactly that ticket and every ticket it held stays as it was.
C17_GeneratedIdsFresh ==
    [][(CreateSucceeded(call', result') /\ ~Has(call'.arguments, "id"))
       => /\ result'.header[2] \notin DOMAIN tickets
          /\ Cardinality(DOMAIN tickets') = Cardinality(DOMAIN tickets) + 1
          /\ \A k \in DOMAIN tickets :
                k \in DOMAIN tickets' /\ tickets'[k] = tickets[k]]_vars

\* The call c was a list_tickets that returned its list.
ListSucceeded(c, r) ==
    /\ c.name = "list_tickets"
    /\ r.kind = "text"
    /\ r.header # <<>>
    /\ r.header[1] = "Found"

\* The elements of a list.
Elements(list) == {list[i] : i \in DOMAIN list}

\* The ticket agrees with every one of status, priority, assignee and
\* reporter that the arguments provide.
MatchesProvided(ticket, arguments) ==
    /\ Has(arguments, "status") => ticket.status.value = arguments.status
    /\ Has(arguments, "priority") => ticket.priority.value = arguments.priority
    /\ Has(arguments, "assignee") => ticket.assignee = arguments.assignee
    /\ Has(arguments, "reporter") => ticket.reporter = arguments.reporter

\* C18: list_tickets with a filter returns exactly the stored tickets that
\* equal the filter in every one of status, priority, assignee and reporter
\* for which a value is provided; only fields not provided do not constrain.
C18_FilterIsAndOfProvided ==
    (ListSucceeded(call, result) /\ ~Has(call.arguments, "tags"))
    => result.body = SelectSeq(Values(ticket_store),
                               LAMBDA t : MatchesProvided(t, call.arguments))

\* C19: list_tickets with a tags filter and no other filter field returns
\* exactly the tickets whose tags share at least one element with the
\* filter's list.
C19_TagsFilterIsOr ==
    (ListSucceeded(call, result) /\ DOMAIN call.arguments = {"tags"})
    => result.body = SelectSeq(Values(ticket_store),
                               LAMBDA t : Elements(t.tags)
                                          \cap Elements(call.arguments.tags) # {})

\* s is t with some of its elements left out, the others in t's order.
RECURSIVE IsSubsequence(_, _)
IsSubsequence(s, t) ==
    IF s = <<>> THEN TRUE
    ELSE IF t = <<>> THEN FALSE
    ELSE IF Head(s) = Head(t) THEN IsSubsequence(Tail(s), Tail(t))
    ELSE IsSubsequence(s, Tail(t))

\* C20: the unfiltered list is in creation order and never re-sorted: a
\* create_ticket puts the ticket it created after all tickets created before
\* it, an update_ticket moves no ticket, and every list list_tickets returns
\* is a subsequence of the unfiltered list.
C20_ListInCreationOrder ==
    [][/\ CreateSucceeded(call', result')
          => list_tickets(ticket_store', <<>>)
             = Append(list_tickets(ticket_store, <<>>), result'.body)
       /\ UpdateSucceeded(call', result')
          => ticket_store'.order = ticket_store.order
       /\ ListSucceeded(call', result')
          => IsSubsequence(result'.body, list_tickets(ticket_store', <<>>))]_vars

\* The status_filter a search_validator_failures call works with.
StatusFilterOf(arguments) == Get(arguments, "status_filter", "open")

\* The ids of a list of tickets or of result entries, in order.
IdsOf(list, field) == [i \in DOMAIN list |-> list[i][field]]

\* C22: in every reachable state of the store, status changes by
\* update_ticket included, search_validator_failures returns a normal result
\* that holds exactly the tickets with a failure keyword in title or
\* description whose status equals status_filter, and with "all" every
\* ticket with such a keyword.
C22_SearchIsKeywordAndStatus ==
    call.name = "search_validator_failures"
    => /\ result.kind = "text"
       /\ IdsOf(result.body.tickets, "ticket_id")
          = IdsOf(SelectSeq(Values(ticket_store),
                            LAMBDA t : /\ IsFailure(t)
                                       /\ \/ StatusFilterOf(call.arguments) = "all"
                                          \/ t.status.value
                                             = StatusFilterOf(call.arguments)),
                  "id")

\* Two search_validator_failures calls, one right after the other (the
\* store is the same for both), with the same status_filter.
SearchTwice ==
    /\ call.name = "search_validator_failures"
    /\ call'.name = "search_validator_failures"
    /\ StatusFilterOf(call'.arguments) = StatusFilterOf(call.arguments)

\* The two calls got the same total_found and the same ticket entries.
SameFound ==
    /\ result'.kind = result.kind
    /\ result.kind = "text"
       => /\ result'.body.total_found = result.body.total_found
          /\ result'.body.tickets = result.body.tickets

SearchMatches(store, arguments) ==
    SelectSeq(Values(store),
              LAMBDA t : /\ IsFailure(t)
                         /\ \/ StatusFilterOf(arguments) = "all"
                            \/ t.status.value = StatusFilterOf(arguments))

\* C24: in a search_validator_failures result, the description_preview of a
\* ticket whose description has more than 200 characters is its first 200
\* characters with the marker "..." after them, and that of a ticket whose
\* description has 200 characters or fewer is the description, no marker.
C24_PreviewTruncation ==
    (call.name = "search_validator_failures" /\ result.kind = "text")
    => LET matches == SearchMatches(ticket_store, call.arguments)
       IN  /\ Len(result.body.tickets) = Len(matches)
           /\ \A i \in DOMAIN matches :
                LET description == matches[i].description
                    shown == result.body.tickets[i].description_preview
                IN  IF TextLen(description) > 200
                    THEN /\ shown.text = Slice(description, 200)
                         /\ TextLen(shown.text) = 200
                         /\ shown.marker = "..."
                    ELSE /\ shown.text = description
                         /\ shown.marker = ""

\* C24 happens: a search found a ticket with a description of exactly 200
\* characters and shows it whole.
C24_Witness ==
    /\ call.name = "search_validator_failures"
    /\ result.kind = "text"
    /\ \E i \in DOMAIN result.body.tickets :
         /\ TextLen(SearchMatches(ticket_store, call.arguments)[i].description) = 200
         /\ result.body.tickets[i].description_preview.marker = ""

\* The response r is the text "Ticket <id> not found".
NotFound(r) ==
    /\ r.kind = "text"
    /\ Len(r.header) = 3
    /\ r.header[1] = "Ticket"
    /\ r.header[3] = "not found"

\* C25: every successful response of a catalog tool (a text that is not
\* "Ticket <id> not found") starts with a summary line, the JSON body of
\* the result after it.
C25_HeaderLineThenJson ==
    (/\ call.name \in CatalogTools
     /\ result.kind = "text"
     /\ ~NotFound(result))
    => result.header # <<>>

\* The call c was an analyze_tickets of the given type that returned.
Analyzed(c, r, analysis_type) ==
    /\ c.name = "analyze_tickets"
    /\ r.kind = "text"
    /\ c.arguments.analysis_type = analysis_type

\* The sum of the counts of a mapping.
RECURSIVE SumOver(_, _)
SumOver(counts, keys) ==
    IF keys = {} THEN 0
    ELSE LET k == CHOOSE k \in keys : TRUE
         IN  counts[k] + SumOver(counts, keys \ {k})

\* The number of stored tickets with one of the given status values.
NumberWithStatus(values) ==
    Cardinality({k \in DOMAIN tickets : tickets[k].status.value \in values})

\* C26: a trends analysis reports a status_distribution whose counts sum to
\* the number of tickets, and as completion_rate the hundredth nearest to
\* (resolved + closed) / total * 100 (rates are in hundredths: 50.0 is
\* 5000), 0 for a store without tickets.
C26_TrendsCompletionRate ==
    Analyzed(call, result, "trends")
    => LET total == Cardinality(DOMAIN tickets)
           done == NumberWithStatus({"resolved", "closed"})
           rate == result.body.completion_rate
           dist == result.body.status_distribution
       IN  /\ SumOver(dist, DOMAIN dist) = total
           /\ \A v \in DOMAIN dist : dist[v] = NumberWithStatus({v})
           /\ total = 0 => rate = 0
           /\ total > 0 => /\ 2 * (rate * total - done * 10000) <= total
                           /\ 2 * (done * 10000 - rate * total) <= total

\* C26 happens: a trends analysis of a store with a closed ticket and no
\* resolved one gave a rate that is no whole percentage.
C26_Witness ==
    /\ Analyzed(call, result, "trends")
    /\ NumberWithStatus({"closed"}) = 1
    /\ NumberWithStatus({"resolved"}) = 0
    /\ result.body.completion_rate = 3333

\* C27: a workload analysis maps each assignee to the number of tickets
\* assigned to them, has no entry for tickets without an assignee, counts
\* those as unassigned_tickets, and the counts and unassigned_tickets add up
\* to the number of tickets.
C27_WorkloadAddsUp ==
    Analyzed(call, result, "workload")
    => LET by == result.body.workload_by_assignee
           free == {k \in DOMAIN tickets : tickets[k].assignee = None}
       IN  /\ None \notin DOMAIN by
           /\ DOMAIN by = {tickets[k].assignee : k \in DOMAIN tickets \ free}
           /\ \A a \in DOMAIN by :
                by[a] = Cardinality({k \in DOMAIN tickets : tickets[k].assignee = a})
           /\ result.body.unassigned_tickets = Cardinality(free)
           /\ SumOver(by, DOMAIN by) + result.body.unassigned_tickets
              = Cardinality(DOMAIN tickets)

\* C27 happens: a workload analysis of a store with tickets of two
\* assignees and tickets of none.
C27_Witness ==
    /\ Analyzed(call, result, "workload")
    /\ Cardinality(DOMAIN result.body.workload_by_assignee) >= 2
    /\ result.body.unassigned_tickets >= 1

\* C28: in every reachable state every ticket's estimated_hours is absent or
\* a number that is not negative.
C28_HoursNotNegative ==
    \A k \in DOMAIN tickets :
        tickets[k].estimated_hours # NoHours => tickets[k].estimated_hours[1] >= 0

\* The tools that only read the store.
ReadOnlyTools ==
    {"get_ticket", "list_tickets", "get_ticket_summary", "analyze_tickets",
     "get_ticket_description", "search_validator_failures"}

\* C29: a call of get_ticket, list_tickets, get_ticket_summary,
\* analyze_tickets, get_ticket_description or search_validator_failures,
\* whatever its arguments and outcome, leaves the keys of the store, their
\* order and every field of every ticket as they were.
C29_ReadOnlyToolsKeepStore ==
    [][(calls' = calls + 1 /\ call'.name \in ReadOnlyTools)
       => /\ DOMAIN tickets' = DOMAIN tickets
          /\ \A k \in DOMAIN tickets : tickets'[k] = tickets[k]
          /\ ticket_store'.order = ticket_store.order]_vars

\* C29 happens: after a call that changed the store, a ticket stamped at
\* clock reading 1 was read by get_ticket and came back as stored.
C29_Witness ==
    /\ calls >= 2
    /\ call.name = "get_ticket"
    /\ result.kind = "text"
    /\ ~NotFound(result)
    /\ result.body = tickets[call.arguments.ticket_id]
    /\ result.body.updated_at = 1

\* C30: in every reachable state each key of the store maps to a ticket
\* whose id is that key: get_ticket(k) returns a ticket with id k.
C30_KeyedByOwnId ==
    \A k \in DOMAIN tickets :
        LET got == get_ticket(ticket_store, k)
        IN  got # NoTicket /\ got[1].id = k

\* A handler has no point at which the event loop can switch to another
\* task (every await in handle_call_tool is on a coroutine of TicketStore
\* that awaits nothing), so the calls in flight take effect as whole
\* handlers, one per step of Next, in whatever order the loop runs them.
\* C21: the store operations are linearizable.  A get_ticket that runs after
\* an update_ticket of the same id has returned gets the ticket that update
\* returned, all its field changes in it.  An update_ticket of an existing
\* ticket is never seen partially applied: the ticket the next call finds is
\* either as it was, or holds every named field with the stamp of this
\* update, the one that committed last, and is what the update returned.
C21_Linearizable ==
    [][/\ (/\ UpdateSucceeded(call, result)
           /\ call' = [name |-> "get_ticket",
                       arguments |-> [ticket_id |-> call.arguments.ticket_id]])
          => /\ result'.kind = "text"
             /\ result'.body = result.body
       /\ UpdateOnExisting(call', ticket_store)
          => LET k == call'.arguments.ticket_id
                 updates == call'.arguments.updates
             IN  \/ tickets'[k] = tickets[k]
                 \/ /\ UpdateSucceeded(call', result')
                    /\ \A f \in TicketFields \ (UpdateKeys(updates) \cup {"updated_at"}) :
                          tickets'[k][f] = tickets[k][f]
                    /\ \A f \in (TicketFields \cap UpdateKeys(updates)) \ {"updated_at"} :
                          FieldIs(tickets'[k], f, UpdateValue(updates, f))
                    /\ tickets'[k].updated_at = now'
                    /\ result'.body = tickets'[k]]_vars

====
